---------------------------- MODULE Spec2Model ----------------------------
(***************************************************************************)
(* Model of src/src/main.py (chatgpt_wordgen): load_prompts, the prompt    *)
(* processing loop of main() and save_responses.                           *)
(*                                                                         *)
(* Text is modelled as a sequence of one-character strings, so that        *)
(* stripping, line splitting and the writer's delimiters are computed      *)
(* character by character.                                                 *)
(***************************************************************************)
EXTENDS Integers, Sequences, FiniteSets, TLC

VARIABLES
    \* ---- the environment: the file system, the console, the log, the clock
    promptFile,             \* the prompt file on disk: [exists, content]
    outFile,                \* the output file on disk: [exists, content]
    stdout,                 \* what print() has written, in order
    log,                    \* the records handed to _logger, in order
    now,                    \* the clock, in seconds
    outBefore,              \* (history) the output file as it was at the start
    \* ---- main()
    pc,                     \* position of main()
    args,                   \* the parsed command line
    prompts,                \* main's local `prompts`
    idx,                    \* position of the for loop in `prompts` (1-based)
    response,               \* main's local `response` (status of get_response)
    last_response,          \* client.last_response
    prompt_response_pairs,  \* main's local list
    \* ---- history of a run of main()
    requested,              \* the completion requests issued: [i, at]
    inflight,               \* the prompt positions with a request in flight
    completions,            \* what get_response gave back: [i, status, text, at]
    sleeps,                 \* the pacing sleeps that ran to their end
    interrupted,            \* the KeyboardInterrupt that ended the loop, if any
    writerCalls,            \* the save_responses calls of main, as called
    \* ---- a direct call of load_prompts
    lp_pc, lp_arg, lp_result,
    \* ---- a direct call of save_responses
    sv_pc, sv_pairs, sv_format, sv_raised

envVars  == <<promptFile, outFile, stdout, log, now, outBefore>>
mainVars == <<pc, args, prompts, idx, response, last_response,
              prompt_response_pairs, requested, inflight, completions,
              sleeps, interrupted, writerCalls>>
loadVars == <<lp_pc, lp_arg, lp_result>>
saveVars == <<sv_pc, sv_pairs, sv_format, sv_raised>>
vars     == <<envVars, mainVars, loadVars, saveVars>>

---------------------------------------------------------------------------
(* Bounds of the model *)

MaxFileLen == 7     \* characters in a prompt file given to load_prompts
MaxPairs   == 2     \* pairs handed to save_responses directly
MaxSleep   == 1     \* largest --sleep value
MaxLatency == 1     \* longest completion request, in seconds

---------------------------------------------------------------------------
(* Text *)

None     == "None"          \* Python's None
NL       == "\n"

\* A path of the file system: no file there, or a file and its content
\* (writable: open(path, "w") succeeds there)
NoFile        == [exists |-> FALSE, writable |-> TRUE, content |-> <<>>]
FileOf(text)  == [exists |-> TRUE, writable |-> TRUE, content |-> text]
ReadOnly(text) == [exists |-> TRUE, writable |-> FALSE, content |-> text]

\* The outcome of a call: the value returned, or the exception raised
Returned(v)   == [raised |-> None, value |-> v]
Raised(e)     == [raised |-> e, value |-> <<>>]
\* str.strip() with no argument strips these (the ASCII ones)
Whitespace == {" ", "\t", NL, "\r"}

RECURSIVE LStrip(_)
LStrip(s) ==
    IF s # <<>> /\ Head(s) \in Whitespace THEN LStrip(Tail(s)) ELSE s

RECURSIVE RStrip(_)
RStrip(s) ==
    IF s # <<>> /\ s[Len(s)] \in Whitespace
    THEN RStrip(SubSeq(s, 1, Len(s) - 1))
    ELSE s

\* line.strip()
Strip(s) == RStrip(LStrip(s))

\* `for line in f`: the lines of a text file, each with its terminating
\* newline, the last one possibly without
RECURSIVE FileLines(_)
FileLines(content) ==
    IF content = <<>> THEN <<>>
    ELSE LET ends == {k \in 1..Len(content) : content[k] = NL}
         IN  IF ends = {} THEN <<content>>
             ELSE LET k == CHOOSE e \in ends : \A o \in ends : e <= o
                  IN  <<SubSeq(content, 1, k)>>
                        \o FileLines(SubSeq(content, k + 1, Len(content)))

\* The built-in list of prompts.py (from prompts import PROMPTS)
PROMPTS == << <<"W", "h", "y", "?">>, <<"N", "a", "m", "e", " ", "i", "t">> >>

\* the lines that are not blank, kept as read
RECURSIVE NonBlankUntrimmed(_)
NonBlankUntrimmed(lines) ==
    IF lines = <<>> THEN <<>>
    ELSE (IF Strip(Head(lines)) # <<>> THEN <<Head(lines)>> ELSE <<>>)
            \o NonBlankUntrimmed(Tail(lines))

\* the lines trimmed, the blank ones kept
RECURSIVE StrippedUnfiltered(_)
StrippedUnfiltered(lines) ==
    IF lines = <<>> THEN <<>>
    ELSE <<Strip(Head(lines))>> \o StrippedUnfiltered(Tail(lines))

\* [line.strip() for line in f if line.strip()]
RECURSIVE StrippedNonBlank(_)
StrippedNonBlank(lines) ==
    IF lines = <<>> THEN <<>>
    ELSE (IF Strip(Head(lines)) # <<>> THEN <<Strip(Head(lines))>> ELSE <<>>)
            \o StrippedNonBlank(Tail(lines))

\* a slip: `[line for line in f if line.strip()]`
load_prompts_untrimmed(prompt_file, file) ==
    IF prompt_file # None /\ prompt_file # ""
    THEN IF ~file.exists THEN Raised("IOError")
         ELSE Returned(NonBlankUntrimmed(FileLines(file.content)))
    ELSE Returned(PROMPTS)

\* a slip: `[line.strip() for line in f]`
load_prompts_unfiltered(prompt_file, file) ==
    IF prompt_file # None /\ prompt_file # ""
    THEN IF ~file.exists THEN Raised("IOError")
         ELSE Returned(StrippedUnfiltered(FileLines(file.content)))
    ELSE Returned(PROMPTS)

\* load_prompts(prompt_file) with the file system as it is: the list
\* returned, or IOError when open() raises.  None and "" are falsy.
load_prompts(prompt_file, file) ==
    IF prompt_file # None /\ prompt_file # ""
    THEN IF ~file.exists THEN Raised("IOError")
         ELSE Returned(StrippedNonBlank(FileLines(file.content)))
    ELSE Returned(PROMPTS)

---------------------------------------------------------------------------
(* save_responses *)

\* a record handed to _logger
Log(level, msg) == [level |-> level, msg |-> msg]

\* the values argparse lets through for --output-format
OutputFormats == {"docx", "txt", "md", "stdout"}

\* a slip: the blank line that ends a block is left out
TxtBlockNoBlankLine(p, r) ==
    <<"P", "r", "o", "m", "p", "t", ":", " ">> \o p
        \o <<NL, "R", "e", "s", "p", "o", "n", "s", "e", ":", " ">> \o r
        \o <<NL>>

\* f"Prompt: {prompt}\nResponse: {response}\n\n"
TxtBlock(p, r) ==
    <<"P", "r", "o", "m", "p", "t", ":", " ">> \o p
        \o <<NL, "R", "e", "s", "p", "o", "n", "s", "e", ":", " ">> \o r
        \o <<NL, NL>>

\* f"## Prompt\n{prompt}\n\n### Response\n{response}\n\n"
MdBlock(p, r) ==
    <<"#", "#", " ", "P", "r", "o", "m", "p", "t", NL>> \o p
        \o <<NL, NL, "#", "#", "#", " ", "R", "e", "s", "p", "o", "n", "s", "e", NL>>
        \o r \o <<NL, NL>>

\* print(f"## Prompt: {prompt}\n## Response: {response}\n"): one print call,
\* which ends what it prints with a newline
StdoutBlock(p, r) ==
    <<"#", "#", " ", "P", "r", "o", "m", "p", "t", ":", " ">> \o p
        \o <<NL, "#", "#", " ", "R", "e", "s", "p", "o", "n", "s", "e", ":", " ">>
        \o r \o <<NL>> \o <<NL>>

\* docgen.save_responses_to_docx: a heading block and a body block per pair
DocxBlock(p, r) ==
    <<"<heading>">> \o p \o <<"<body>">> \o r

\* `for prompt, response in prompt_response_pairs: f.write(block)`: what the
\* loop has written when it ends
RECURSIVE Written(_, _)
Written(kind, pairs) ==
    IF pairs = <<>> THEN <<>>
    ELSE LET p == Head(pairs)[1]
             r == Head(pairs)[2]
         IN  (CASE kind = "txt"  -> TxtBlock(p, r)
                [] kind = "md"   -> MdBlock(p, r)
                [] kind = "docx" -> DocxBlock(p, r))
                \o Written(kind, Tail(pairs))

\* the print calls of the stdout branch, one per pair
RECURSIVE Printed(_)
Printed(pairs) ==
    IF pairs = <<>> THEN <<>>
    ELSE <<StdoutBlock(Head(pairs)[1], Head(pairs)[2])>> \o Printed(Tail(pairs))

\* `with open(filename, "w", encoding="utf-8") as f` followed by the writes:
\* the file is created or truncated, then holds what was written; open()
\* raises where the path cannot be written
WriteFile(file, text) ==
    IF file.writable THEN [file |-> FileOf(text), raised |-> None]
    ELSE [file |-> file, raised |-> "IOError"]

\* a slip: a format that is not known is written as text
save_responses_else_txt(pairs, file, output_format, console, logged) ==
    LET w == WriteFile(file, Written("txt", pairs))
    IN  [file |-> w.file, stdout |-> console,
         log |-> Append(logged, Log("INFO", "Saving responses in TXT format")),
         raised |-> w.raised]

\* save_responses(prompt_response_pairs, filename, output_format), `file`
\* being the file `filename` names, `console` what stdout holds and `logged`
\* what the log holds when it is called: the three when it returns or raises
save_responses(pairs, file, output_format, console, logged) ==
    IF output_format = "docx" THEN
        LET w == WriteFile(file, Written("docx", pairs))
        IN  [file |-> w.file, stdout |-> console,
             log |-> Append(logged, Log("INFO", "Saving responses in DOCX format")),
             raised |-> w.raised]
    ELSE IF output_format = "txt" THEN
        LET w == WriteFile(file, Written("txt", pairs))
        IN  [file |-> w.file, stdout |-> console,
             log |-> Append(logged, Log("INFO", "Saving responses in TXT format")),
             raised |-> w.raised]
    ELSE IF output_format = "md" THEN
        LET w == WriteFile(file, Written("md", pairs))
        IN  [file |-> w.file, stdout |-> console,
             log |-> Append(logged, Log("INFO", "Saving responses in Markdown format")),
             raised |-> w.raised]
    ELSE IF output_format = "stdout" THEN
        [file |-> file, stdout |-> console \o Printed(pairs),
         log |-> Append(logged, Log("INFO", "Printing responses to stdout")),
         raised |-> None]
    ELSE
        [file |-> file, stdout |-> console,
         log |-> Append(logged, Log("ERROR", "Unknown output format")),
         raised |-> None]

---------------------------------------------------------------------------
(* Idle values of the parts a specification does not exercise *)

EnvIdle ==
    /\ stdout = <<>>
    /\ log = <<>>
    /\ now = 0

\* no KeyboardInterrupt so far
NotInterrupted == [happened |-> FALSE, at |-> None, requests |-> 0, successes |-> 0]

MainIdle ==
    /\ pc = "idle"
    /\ args = [sleep |-> 0, output |-> "output.docx", output_format |-> "docx",
               prompt_file |-> None]
    /\ prompts = <<>>
    /\ idx = 0
    /\ response = None
    /\ last_response = <<>>
    /\ prompt_response_pairs = <<>>
    /\ requested = <<>>
    /\ inflight = {}
    /\ completions = <<>>
    /\ sleeps = 0
    /\ interrupted = NotInterrupted
    /\ writerCalls = <<>>

LoadIdle ==
    /\ lp_pc = "idle"
    /\ lp_arg = None
    /\ lp_result = Returned(<<>>)

SaveIdle ==
    /\ sv_pc = "idle"
    /\ sv_pairs = <<>>
    /\ sv_format = None
    /\ sv_raised = None

---------------------------------------------------------------------------
(* A call of load_prompts on a prompt file *)

FileAlphabet == {"a", "b", " ", NL}

\* every text of at most n characters over the alphabet
RECURSIVE TextsUpTo(_, _)
TextsUpTo(alphabet, n) ==
    IF n = 0 THEN {<<>>}
    ELSE LET shorter == TextsUpTo(alphabet, n - 1)
         IN  shorter \cup {Append(t, c) : t \in shorter, c \in alphabet}

PromptFilePaths == {None, "", "prompts.txt"}

InitLoad ==
    /\ promptFile \in {FileOf(t) : t \in TextsUpTo(FileAlphabet, MaxFileLen)}
                        \cup {NoFile}
    /\ outFile = NoFile
    /\ outBefore = NoFile
    /\ EnvIdle /\ MainIdle /\ SaveIdle
    /\ lp_pc = "call"
    /\ lp_arg \in PromptFilePaths
    /\ lp_result = Returned(<<>>)

LoadCall ==
    /\ lp_pc = "call"
    /\ lp_result' = load_prompts(lp_arg, promptFile)
    /\ lp_pc' = "returned"
    /\ lp_arg' = lp_arg
    /\ UNCHANGED <<envVars, mainVars, saveVars>>

NextLoad == LoadCall

SpecLoad == InitLoad /\ [][NextLoad]_vars

---------------------------------------------------------------------------
(* A call of save_responses *)

SamplePrompts ==
    { <<"a">>,
      <<"P", "r", "o", "m", "p", "t", ":", " ", "a">>,
      <<"a", NL, "b">>,
      <<"a", NL, "R", "e", "s", "p", "o", "n", "s", "e", ":", " ", "b">> }

SampleResponses ==
    { <<>>,
      <<"4">>,
      <<"#", "#", "#", " ", "R", "e", "s", "p", "o", "n", "s", "e">>,
      <<"x", NL, NL, "y">>,
      <<"4", NL, NL, "P", "r", "o", "m", "p", "t", ":", " ", "a",
        NL, "R", "e", "s", "p", "o", "n", "s", "e", ":", " ", "4">> }

\* the sequences of at most n elements of S
RECURSIVE SeqsUpTo(_, _)
SeqsUpTo(S, n) ==
    IF n = 0 THEN {<<>>}
    ELSE LET shorter == SeqsUpTo(S, n - 1)
         IN  shorter \cup {Append(q, e) : q \in shorter, e \in S}

OldContent == <<"o", "l", "d">>

InitSave ==
    /\ promptFile = NoFile
    /\ outFile \in {NoFile, FileOf(OldContent), ReadOnly(OldContent)}
    /\ EnvIdle /\ MainIdle /\ LoadIdle
    /\ sv_pc = "call"
    /\ sv_pairs \in SeqsUpTo(SamplePrompts \X SampleResponses, MaxPairs)
    /\ sv_format \in OutputFormats \cup {"pdf", "TXT", ""}
    /\ outBefore = outFile
    /\ sv_raised = None

SaveCall ==
    /\ sv_pc = "call"
    /\ LET r == save_responses(sv_pairs, outFile, sv_format, stdout, log)
       IN  /\ outFile' = r.file
           /\ stdout' = r.stdout
           /\ log' = r.log
           /\ sv_raised' = r.raised
    /\ sv_pc' = "returned"
    /\ UNCHANGED <<promptFile, now, outBefore, sv_pairs, sv_format>>
    /\ UNCHANGED <<mainVars, loadVars>>

NextSave == SaveCall

SpecSave == InitSave /\ [][NextSave]_vars

---------------------------------------------------------------------------
(* main() *)

\* what a successful completion may leave in client.last_response
Responses == { <<"4">>, <<"B", "l", "u", "e">> }

\* what get_response returns when the completion failed
FailureStatuses == {"Error: rate limit"}

\* the prompt files a run may find at --prompt-file
RunPromptFiles ==
    { NoFile,
      FileOf(<<>>),
      FileOf(<<"a", NL, NL, " ", " ", NL, "b">>),
      FileOf(<<" ", "a", NL, "b", " ", "b", NL, "a", NL>>) }

OutputPath == "output.docx"

\* The command line as parse_args leaves it.  --sleep is taken from 0 up:
\* on a negative value time.sleep raises ValueError, which main does not
\* catch.  A KeyboardInterrupt is taken inside the try block of lines
\* 165-185, where main catches it.
InitMain ==
    /\ args \in [sleep : 0..MaxSleep, output : {OutputPath},
                  output_format : OutputFormats,
                  prompt_file : {None, "prompts.txt"}]
    /\ promptFile \in RunPromptFiles
    /\ args.prompt_file = None => promptFile = NoFile
    /\ outFile \in {NoFile, FileOf(OldContent), ReadOnly(OldContent)}
    /\ outBefore = outFile
    /\ EnvIdle /\ LoadIdle /\ SaveIdle
    /\ pc = "start"
    /\ prompts = <<>>
    /\ idx = 0
    /\ response = None
    /\ last_response = <<>>
    /\ prompt_response_pairs = <<>>
    /\ requested = <<>>
    /\ inflight = {}
    /\ completions = <<>>
    /\ sleeps = 0
    /\ interrupted = NotInterrupted
    /\ writerCalls = <<>>

unchangedRun == <<args, promptFile, outBefore, loadVars, saveVars>>

\* lines 140-162: the parameters are logged, the prompts loaded; an IOError
\* of load_prompts is not caught
LoadPrompts ==
    /\ pc = "start"
    /\ log' = Append(log, Log("DEBUG", "Using parameters"))
    /\ LET r == load_prompts(args.prompt_file, promptFile)
       IN  IF r.raised # None
           THEN /\ pc' = "load_failed"
                /\ UNCHANGED <<prompts, idx>>
           ELSE /\ prompts' = r.value
                /\ idx' = 1
                /\ pc' = "iter"
    /\ UNCHANGED <<outFile, stdout, now, response, last_response,
                   prompt_response_pairs, requested, inflight, completions,
                   sleeps, interrupted, writerCalls, unchangedRun>>

\* lines 166-168: the for loop takes the next prompt and sends it
SendPrompt ==
    /\ pc = "iter"
    /\ idx <= Len(prompts)
    /\ log' = Append(log, Log("INFO", "Sending prompt"))
    /\ requested' = Append(requested, [i |-> idx, at |-> now])
    /\ inflight' = inflight \cup {idx}
    /\ pc' = "request"
    /\ UNCHANGED <<outFile, stdout, now, prompts, idx, response, last_response,
                   prompt_response_pairs, completions, sleeps, interrupted,
                   writerCalls, unchangedRun>>

\* line 166: the for loop has no prompt left
LoopExhausted ==
    /\ pc = "iter"
    /\ idx > Len(prompts)
    /\ pc' = "save"
    /\ UNCHANGED <<envVars, args, prompts, idx, response, last_response,
                   prompt_response_pairs, requested, inflight, completions,
                   sleeps, interrupted, writerCalls, loadVars, saveVars>>

\* client.get_response returns 'Success', the text in client.last_response
CompletionSucceeds ==
    /\ pc = "request"
    /\ \E text \in Responses, d \in 0..MaxLatency :
          /\ now' = now + d
          /\ response' = "Success"
          /\ last_response' = text
          /\ completions' = Append(completions,
                [i |-> idx, status |-> "Success", text |-> text, at |-> now + d])
    /\ inflight' = inflight \ {idx}
    /\ pc' = "check"
    /\ UNCHANGED <<outFile, stdout, log, prompts, idx, prompt_response_pairs,
                   requested, sleeps, interrupted, writerCalls, unchangedRun>>

\* client.get_response returns anything else: the completion failed
CompletionFails ==
    /\ pc = "request"
    /\ \E status \in FailureStatuses, d \in 0..MaxLatency :
          /\ now' = now + d
          /\ response' = status
          /\ completions' = Append(completions,
                [i |-> idx, status |-> status, text |-> <<>>, at |-> now + d])
    /\ inflight' = inflight \ {idx}
    /\ pc' = "check"
    /\ UNCHANGED <<outFile, stdout, log, prompts, idx, last_response,
                   prompt_response_pairs, requested, sleeps, interrupted,
                   writerCalls, unchangedRun>>

\* a slip: the status get_response returned is stored, not the text
AppendPairStoresStatus ==
    /\ pc = "check"
    /\ response = "Success"
    /\ prompt_response_pairs' =
            Append(prompt_response_pairs, <<prompts[idx], <<response>> >>)
    /\ pc' = "sleep"
    /\ UNCHANGED <<envVars, args, prompts, idx, response, last_response,
                   requested, inflight, completions, sleeps, interrupted,
                   writerCalls, loadVars, saveVars>>

\* lines 175-176: prompt_response_pairs.append((prompt, client.last_response))
AppendPair ==
    /\ pc = "check"
    /\ response = "Success"
    /\ prompt_response_pairs' =
            Append(prompt_response_pairs, <<prompts[idx], last_response>>)
    /\ pc' = "sleep"
    /\ UNCHANGED <<envVars, args, prompts, idx, response, last_response,
                   requested, inflight, completions, sleeps, interrupted,
                   writerCalls, loadVars, saveVars>>

\* a slip: the loop goes on without the pause
SleepSkipped ==
    /\ pc = "sleep"
    /\ idx' = idx + 1
    /\ pc' = "iter"
    /\ UNCHANGED <<outFile, stdout, log, now, prompts, response, last_response,
                   prompt_response_pairs, requested, inflight, completions,
                   sleeps, interrupted, writerCalls, unchangedRun>>

\* line 177: time.sleep(args.sleep) runs to its end, the loop goes on
Sleep ==
    /\ pc = "sleep"
    /\ now' = now + args.sleep
    /\ sleeps' = sleeps + 1
    /\ idx' = idx + 1
    /\ pc' = "iter"
    /\ UNCHANGED <<outFile, stdout, log, prompts, response, last_response,
                   prompt_response_pairs, requested, inflight, completions,
                   interrupted, writerCalls, unchangedRun>>

\* a slip: `continue` where the code has `break`
ReportFailureAndContinue ==
    /\ pc = "check"
    /\ response # "Success"
    /\ log' = log \o <<Log("ERROR", "Error generating response for prompt"),
                        Log("ERROR", "Exiting due to error")>>
    /\ stdout' = stdout \o
            << <<"[red]Error generating response for prompt: ">>
                    \o prompts[idx] \o <<"[/red]", NL>>,
               <<"[red]Exiting due to error:[/red] ", response, NL>> >>
    /\ idx' = idx + 1
    /\ pc' = "iter"
    /\ UNCHANGED <<outFile, now, prompts, response, last_response,
                   prompt_response_pairs, requested, inflight, completions,
                   sleeps, interrupted, writerCalls, unchangedRun>>

\* a slip: the failed prompt is recorded with the status as its response
ReportFailureRecordsPair ==
    /\ pc = "check"
    /\ response # "Success"
    /\ log' = log \o <<Log("ERROR", "Error generating response for prompt"),
                        Log("ERROR", "Exiting due to error")>>
    /\ stdout' = stdout \o
            << <<"[red]Error generating response for prompt: ">>
                    \o prompts[idx] \o <<"[/red]", NL>>,
               <<"[red]Exiting due to error:[/red] ", response, NL>> >>
    /\ prompt_response_pairs' =
            Append(prompt_response_pairs, <<prompts[idx], <<response>> >>)
    /\ pc' = "save"
    /\ UNCHANGED <<outFile, now, prompts, idx, response, last_response,
                   requested, inflight, completions, sleeps, interrupted,
                   writerCalls, unchangedRun>>

\* lines 178-183: the failure is logged and printed, the loop left
ReportFailure ==
    /\ pc = "check"
    /\ response # "Success"
    /\ log' = log \o <<Log("ERROR", "Error generating response for prompt"),
                        Log("ERROR", "Exiting due to error")>>
    /\ stdout' = stdout \o
            << <<"[red]Error generating response for prompt: ">>
                    \o prompts[idx] \o <<"[/red]", NL>>,
               <<"[red]Exiting due to error:[/red] ", response, NL>> >>
    /\ pc' = "save"
    /\ UNCHANGED <<outFile, now, prompts, idx, response, last_response,
                   prompt_response_pairs, requested, inflight, completions,
                   sleeps, interrupted, writerCalls, unchangedRun>>

\* the number of completions that have succeeded so far
Successes == Cardinality({k \in 1..Len(completions) :
                            completions[k].status = "Success"})

\* a slip: the interrupt is caught inside the loop, which goes on
KeyboardInterruptSkipsPrompt ==
    /\ pc \in {"iter", "request", "check", "sleep"}
    /\ interrupted' = [happened |-> TRUE, at |-> pc,
                       requests |-> Len(requested), successes |-> Successes]
    /\ inflight' = {}
    /\ log' = Append(log, Log("WARNING", "Interrupted by user"))
    /\ idx' = idx + 1
    /\ pc' = "iter"
    /\ UNCHANGED <<outFile, stdout, now, prompts, response, last_response,
                   prompt_response_pairs, requested, completions, sleeps,
                   writerCalls, unchangedRun>>

\* lines 165, 184-185: a KeyboardInterrupt raised anywhere in the try block
\* (between two iterations, with the request in flight, between its return
\* and the append or the report, in the sleep) is caught and logged
KeyboardInterrupt ==
    /\ pc \in {"iter", "request", "check", "sleep"}
    /\ interrupted' = [happened |-> TRUE, at |-> pc,
                       requests |-> Len(requested), successes |-> Successes]
    /\ inflight' = {}
    /\ log' = Append(log, Log("WARNING", "Interrupted by user"))
    /\ pc' = "save"
    /\ UNCHANGED <<outFile, stdout, now, prompts, idx, response, last_response,
                   prompt_response_pairs, requested, completions, sleeps,
                   writerCalls, unchangedRun>>

\* a slip: the writer is called whatever the list holds
SaveAlways == TRUE

\* line 187: `if prompt_response_pairs:`
HasPairs == prompt_response_pairs # <<>>

\* lines 187-189: the pairs are handed to save_responses; what it raises is
\* not caught
SavePairs ==
    /\ pc = "save"
    /\ HasPairs
    /\ LET r == save_responses(prompt_response_pairs, outFile,
                               args.output_format, stdout,
                               Append(log, Log("INFO", "Saving responses to")))
       IN  /\ outFile' = r.file
           /\ stdout' = r.stdout
           /\ log' = r.log
           /\ pc' = IF r.raised # None THEN "save_failed" ELSE "done"
    /\ writerCalls' = Append(writerCalls,
            [pairs |-> prompt_response_pairs, output_format |-> args.output_format,
             requests |-> Len(requested)])
    /\ UNCHANGED <<now, prompts, idx, response, last_response,
                   prompt_response_pairs, requested, inflight, completions,
                   sleeps, interrupted, unchangedRun>>

\* lines 190-191: nothing to save
WarnNothingToSave ==
    /\ pc = "save"
    /\ ~HasPairs
    /\ log' = Append(log, Log("WARNING", "No responses to save."))
    /\ pc' = "done"
    /\ UNCHANGED <<outFile, stdout, now, prompts, idx, response, last_response,
                   prompt_response_pairs, requested, inflight, completions,
                   sleeps, interrupted, writerCalls, unchangedRun>>

Next ==
    \/ LoadPrompts
    \/ SendPrompt
    \/ LoopExhausted
    \/ CompletionSucceeds
    \/ CompletionFails
    \/ AppendPair
    \/ Sleep
    \/ ReportFailure
    \/ KeyboardInterrupt
    \/ SavePairs
    \/ WarnNothingToSave

Init == InitMain

Spec == Init /\ [][Next]_vars

---------------------------------------------------------------------------
(* The processing loop: what a run keeps, requests and writes *)

\* the loop of main() is over
LoopEnded == pc \in {"save", "done", "save_failed"}

\* the pair a successful k-th completion stands for
PairOf(k) == <<prompts[k], completions[k].text>>

Failed(n) == completions[n].status # "Success"

\* C1: when the completions of prompts 1..N-1 succeed and the N-th fails,
\* the loop ends at once, no request is issued for a later prompt, and the
\* list holds exactly N-1 pairs, those of the first N-1 prompts, in order.
C1_FailFast ==
    \A n \in 1..Len(completions) :
        Failed(n) =>
            /\ n = Len(completions)
            /\ Len(requested) = n
            /\ inflight = {}
            /\ idx = n
            /\ pc \in {"check", "save", "done", "save_failed"}
            /\ Len(prompt_response_pairs) = n - 1
            /\ \A k \in 1..(n - 1) : prompt_response_pairs[k] = PairOf(k)

\* the third of three completions has failed and the run is over
C1_Witness ==
    /\ pc = "done"
    /\ Len(prompts) = 3
    /\ Len(completions) = 3
    /\ Failed(3)
    /\ ~interrupted.happened
    /\ Len(prompt_response_pairs) = 2

DroppedByInterrupt ==
    /\ interrupted.at = "check"
    /\ ~Failed(Len(completions))

LoggedLast(record) == log # <<>> /\ log[Len(log)] = record

C10_Prefix ==
    \A i \in 1..Len(prompt_response_pairs) :
        /\ i <= Len(completions)
        /\ ~Failed(i)
        /\ prompt_response_pairs[i] = PairOf(i)

C10_Step ==
    \/ prompt_response_pairs' = prompt_response_pairs
    \/ /\ pc = "check"
       /\ completions # <<>>
       /\ ~Failed(Len(completions))
       /\ completions[Len(completions)].i = idx
       /\ prompt_response_pairs' =
                Append(prompt_response_pairs, PairOf(Len(completions)))

\* C10: in every reachable state the list is a prefix-aligned image of the
\* prompt sequence (its i-th pair is the i-th prompt with the response its
\* successful completion returned); every step leaves the list as it is or
\* appends one pair, directly after a successful completion; no pair is
\* removed, reordered or changed, and none exists for a failed, interrupted
\* or not yet attempted prompt.
C10_AppendOnlyPrefix == []C10_Prefix /\ [][C10_Step]_vars

\* two pairs are kept, the third completion failed, then the interrupt came
C10_Witness ==
    /\ LoopEnded
    /\ Len(prompt_response_pairs) = 2
    /\ Len(completions) = 3
    /\ Failed(3)
    /\ interrupted.happened

---------------------------------------------------------------------------
(* The lines of a text, stated by position rather than computed *)

\* the positions where a line of text c starts
LineStarts(c) ==
    IF c = <<>> THEN {}
    ELSE {1} \cup {k + 1 : k \in {j \in 1..(Len(c) - 1) : c[j] = NL}}

\* the last position of the line starting at s (its newline, or the end)
LineEnd(c, s) ==
    IF \E k \in s..Len(c) : c[k] = NL
    THEN CHOOSE k \in s..Len(c) :
            c[k] = NL /\ \A j \in s..(k - 1) : c[j] # NL
    ELSE Len(c)

\* the positions of the line starting at s that hold no whitespace
Inked(c, s) == {k \in s..LineEnd(c, s) : c[k] \notin Whitespace}

\* the line starting at s, from its first to its last such position
Trimmed(c, s) ==
    LET ink == Inked(c, s)
    IN  SubSeq(c, CHOOSE f \in ink : \A k \in ink : f <= k,
                  CHOOSE l \in ink : \A k \in ink : l >= k)

IsBlank(t) == \A k \in 1..Len(t) : t[k] \in Whitespace

LoadedFromFile ==
    /\ lp_pc = "returned"
    /\ lp_arg \notin {None, ""}
    /\ promptFile.exists

\* C6: for every readable prompt file, load_prompts returns exactly the
\* whitespace-trimmed lines of the file that are not empty after trimming,
\* in file order: as many entries as the file has non-blank lines, the j-th
\* entry being the j-th non-blank line from its first to its last
\* non-whitespace character.
C6_LoadReturnsTrimmedNonBlankLines ==
    LoadedFromFile =>
        LET c      == promptFile.content
            starts == {s \in LineStarts(c) : Inked(c, s) # {}}
            got    == lp_result.value
        IN  /\ lp_result.raised = None
            /\ Len(got) = Cardinality(starts)
            /\ \A s \in starts :
                  got[Cardinality({t \in starts : t <= s})] = Trimmed(c, s)

\* the scenario of the specification: lines "a", "", "  ", "b"
C6_Witness ==
    /\ LoadedFromFile
    /\ promptFile.content = <<"a", NL, NL, " ", " ", NL, "b">>
    /\ lp_result.value = << <<"a">>, <<"b">> >>

---------------------------------------------------------------------------
(* The writer on a format it does not know *)

\* C5: save_responses called with a format outside {docx, txt, md, stdout}
\* reports an error and produces no output: the destination is neither
\* created, truncated nor written, nothing is printed, and the call returns
\* without raising.
C5_UnknownFormatWritesNothing ==
    (sv_pc = "returned" /\ sv_format \notin OutputFormats) =>
        /\ outFile = outBefore
        /\ stdout = <<>>
        /\ sv_raised = None
        /\ log = <<Log("ERROR", "Unknown output format")>>

\* the scenario of the specification: format "pdf", with pairs to write and
\* a file already at the destination
C5_Witness ==
    /\ sv_pc = "returned"
    /\ sv_format = "pdf"
    /\ Len(sv_pairs) = 2
    /\ outBefore = FileOf(OldContent)

---------------------------------------------------------------------------
(* Reading a written file back by the delimiters of its format *)

StartsWith(t, prefix) ==
    /\ Len(t) >= Len(prefix)
    /\ SubSeq(t, 1, Len(prefix)) = prefix

DropFirst(t, n) == SubSeq(t, n + 1, Len(t))

\* the first position where pat occurs in t, 0 when it does not
FirstAt(t, pat) ==
    LET at == {k \in 1..(Len(t) - Len(pat) + 1) :
                    SubSeq(t, k, k + Len(pat) - 1) = pat}
    IN  IF at = {} THEN 0 ELSE CHOOSE k \in at : \A j \in at : k <= j

Unparsed == [ok |-> FALSE, pairs |-> <<>>]

\* blocks `opening <p> middle <r> closing`, each delimiter taken where it
\* first occurs
RECURSIVE ParseBlocks(_, _, _, _)
ParseBlocks(t, opening, middle, closing) ==
    IF t = <<>> THEN [ok |-> TRUE, pairs |-> <<>>]
    ELSE IF ~StartsWith(t, opening) THEN Unparsed
    ELSE LET t1 == DropFirst(t, Len(opening))
             m  == FirstAt(t1, middle)
         IN  IF m = 0 THEN Unparsed
             ELSE LET t2 == DropFirst(t1, m - 1 + Len(middle))
                      c  == FirstAt(t2, closing)
                  IN  IF c = 0 THEN Unparsed
                      ELSE LET rest == ParseBlocks(
                                          DropFirst(t2, c - 1 + Len(closing)),
                                          opening, middle, closing)
                           IN  IF ~rest.ok THEN Unparsed
                               ELSE [ok |-> TRUE,
                                     pairs |-> << <<SubSeq(t1, 1, m - 1),
                                                    SubSeq(t2, 1, c - 1)>> >>
                                                 \o rest.pairs]

\* `Prompt: <p>\nResponse: <r>\n\n`
ParseTxt(t) ==
    ParseBlocks(t, <<"P", "r", "o", "m", "p", "t", ":", " ">>,
                <<NL, "R", "e", "s", "p", "o", "n", "s", "e", ":", " ">>,
                <<NL, NL>>)

\* `## Prompt\n<p>\n\n### Response\n<r>\n\n`
ParseMd(t) ==
    ParseBlocks(t, <<"#", "#", " ", "P", "r", "o", "m", "p", "t", NL>>,
                <<NL, NL, "#", "#", "#", " ", "R", "e", "s", "p", "o", "n", "s", "e", NL>>,
                <<NL, NL>>)

WroteTextOrMarkdown ==
    /\ sv_pc = "returned"
    /\ sv_format \in {"txt", "md"}
    /\ sv_raised = None

ReadBack ==
    IF sv_format = "txt" THEN ParseTxt(outFile.content)
    ELSE ParseMd(outFile.content)

HasNewline(t) == \E k \in 1..Len(t) : t[k] = NL

NewlineFree(pairs) ==
    \A k \in 1..Len(pairs) : ~HasNewline(pairs[k][1]) /\ ~HasNewline(pairs[k][2])

\* C8 as stated: for every sequence of pairs, those holding newlines or the
\* delimiter text included, the file written in the text or the markdown
\* format reads back as the same pairs.
C8_RoundTripAnyContent ==
    WroteTextOrMarkdown => ReadBack = [ok |-> TRUE, pairs |-> sv_pairs]

\* C8 as amended: for every sequence of pairs whose prompts and responses
\* hold no newline, the file written in the text or the markdown format
\* reads back as the same pairs, in order.
C8_RoundTripNewlineFree ==
    (WroteTextOrMarkdown /\ NewlineFree(sv_pairs)) =>
        ReadBack = [ok |-> TRUE, pairs |-> sv_pairs]

\* two pairs without a newline, one of them holding delimiter words, have
\* been written over an existing file and read back
C8_Witness ==
    /\ WroteTextOrMarkdown
    /\ NewlineFree(sv_pairs)
    /\ Len(sv_pairs) = 2
    /\ sv_pairs[1] # sv_pairs[2]
    /\ \E k \in 1..2 : Len(sv_pairs[k][1]) > 1
    /\ outBefore = FileOf(OldContent)
    /\ ReadBack.pairs = sv_pairs

===========================================================================
